---- MODULE Spec2Model ----
(***************************************************************************)
(* SkeletonTool: the per-frame skeleton debug visualisation pass.          *)
(*                                                                         *)
(* State: the tool's options object, the collaborators the tool reads      *)
(* (engineInstance.skeletonEntityAssetMap, engineInstance.skeletonMap,     *)
(* the scene graph's world matrices, the ECS store, the asset manager,     *)
(* the debug renderer), and the sequence of drawPoint/drawLine calls the   *)
(* most recent update() made on the debug renderer.                        *)
(*                                                                         *)
(* Numbers.  A JS number is a fixed-point integer counting thousandths     *)
(* (Milli): 1.6 is 1600, the colour channel 0.5 is 500.  Products and      *)
(* quotients rescale (Mul, Div).  Array indices and counts are plain       *)
(* integers.  Matrices are column-major tuples of 16 numbers, read with    *)
(* the code's 0-based index (At).                                          *)
(*                                                                         *)
(* JS values that may be undefined/null (a bone's parentIndex) are tagged  *)
(* records [type, value].  A Map is a sequence of [key, value] entries in  *)
(* insertion order, keys distinct.                                         *)
(*                                                                         *)
(* Every emitted call carries, besides its arguments, the provenance of    *)
(* the call (entity, bone index, call site, isStandalone).  These four     *)
(* fields are bookkeeping of the model; the renderer never sees them.      *)
(***************************************************************************)
EXTENDS Integers, Sequences, FiniteSets, TLC

VARIABLES
    options,                \* this.options
    skeletonEntityAssetMap, \* engineInstance.skeletonEntityAssetMap : entityId -> assetId
    skeletonMap,            \* engineInstance.skeletonMap : entityId -> live bone ids
    sceneGraph,             \* getWorldMatrix : id -> matrix (absent: not in DOMAIN)
    idToIndex,              \* engineInstance.ecs.idToIndex
    isActive,               \* engineInstance.ecs.store.isActive
    meshType,               \* engineInstance.ecs.store.meshType
    meshIntToUuid,          \* assetManager.meshIntToUuid
    assets,                 \* assetManager.getAsset : assetId -> asset (absent: not in DOMAIN)
    debugRenderer,          \* engineInstance.debugRenderer is set
    prims,                  \* the calls the most recent update() made on the debug renderer
    calls,                  \* the drawSkeleton invocations of the most recent update()
    runs,                   \* update() calls (counted up to MaxRuns) since the options last changed
    loop                    \* where a step-by-step update() stands: pc, call n, bone i, visits

env == <<skeletonEntityAssetMap, skeletonMap, sceneGraph, idToIndex, isActive,
         meshType, meshIntToUuid, assets, debugRenderer>>

vars == <<options, skeletonEntityAssetMap, skeletonMap, sceneGraph, idToIndex, isActive,
          meshType, meshIntToUuid, assets, debugRenderer, prims, calls, runs, loop>>

---------------------------------------------------------------------------
(* Fixed-point numbers *)

MaxRuns == 2

Milli == 1000

Fx(n) == n * Milli

\* A natural number too large for an integer of the model, exactly: its
\* base-1000 digits, least significant first, without a leading zero digit.
\* <<>> is 0, <<440, 134, 2>> is 2134440.
RECURSIVE Digits(_)
Digits(n) == IF n = 0 THEN <<>> ELSE << n % Milli >> \o Digits(n \div Milli)

Digit(d, k) == IF k <= Len(d) THEN d[k] ELSE 0

RECURSIVE Trim(_)
Trim(d) ==
    IF d = <<>> THEN <<>>
    ELSE IF d[Len(d)] = 0 THEN Trim(SubSeq(d, 1, Len(d) - 1))
    ELSE d

RECURSIVE BigAddFrom(_, _, _, _)
BigAddFrom(a, b, k, carry) ==
    IF k > Len(a) /\ k > Len(b)
    THEN (IF carry = 0 THEN <<>> ELSE << carry >>)
    ELSE LET t == Digit(a, k) + Digit(b, k) + carry
         IN  << t % Milli >> \o BigAddFrom(a, b, k + 1, t \div Milli)

BigAdd(a, b) == BigAddFrom(a, b, 1, 0)

\* a times the single digit m, plus carry
RECURSIVE BigScale(_, _, _)
BigScale(a, m, carry) ==
    IF a = <<>> THEN Digits(carry)
    ELSE LET t == Head(a) * m + carry
         IN  << t % Milli >> \o BigScale(Tail(a), m, t \div Milli)

RECURSIVE BigMul(_, _)
BigMul(a, b) ==
    IF a = <<>> \/ b = <<>> THEN <<>>
    ELSE Trim(BigAdd(BigScale(a, Head(b), 0), << 0 >> \o BigMul(a, Tail(b))))

\* a <= b, from digit k down
RECURSIVE BigLeFrom(_, _, _)
BigLeFrom(a, b, k) ==
    IF k = 0 THEN TRUE
    ELSE IF Digit(a, k) < Digit(b, k) THEN TRUE
    ELSE IF Digit(a, k) > Digit(b, k) THEN FALSE
    ELSE BigLeFrom(a, b, k - 1)

BigLe(a, b) == BigLeFrom(a, b, IF Len(a) > Len(b) THEN Len(a) ELSE Len(b))

Abs(a) == IF a < 0 THEN 0 - a ELSE a

\* The greatest q in lo..hi with q * d <= n, for digits d and n
RECURSIVE QuotientSearch(_, _, _, _)
QuotientSearch(n, d, lo, hi) ==
    IF lo >= hi THEN lo
    ELSE LET mid == lo + (hi - lo + 1) \div 2
         IN  IF BigLe(BigMul(Digits(mid), d), n)
             THEN QuotientSearch(n, d, mid, hi)
             ELSE QuotientSearch(n, d, lo, mid - 1)

\* The thousandths of r / d, to the nearest, for 0 <= r < d
Fraction(r, d) ==
    IF d <= Milli * Milli
    THEN (2 * r * Milli + d) \div (2 * d)
    ELSE LET q == QuotientSearch(BigMul(Digits(r), << 0, 1 >>), Digits(d), 0, Milli)
         IN  IF BigLe(BigMul(Digits(2 * q + 1), Digits(d)), BigMul(Digits(r), << 0, 2 >>))
             THEN q + 1
             ELSE q

\* a / b to the nearest thousandth
Div(a, b) ==
    LET q == Fx(Abs(a) \div Abs(b)) + Fraction(Abs(a) % Abs(b), Abs(b))
    IN  IF (a < 0) = (b < 0) THEN q ELSE 0 - q

\* x ** 2, exactly: the square of a number of thousandths is a number of
\* millionths, kept as digits (0.01 ** 2 = 0.0001 is << 100 >>)
Sq(a) == BigMul(Digits(Abs(a)), Digits(Abs(a)))

\* The greatest digit in lo..hi that, put at place k of the digits r, keeps
\* r * r <= n, for digits n
RECURSIVE DigitSearch(_, _, _, _, _)
DigitSearch(n, r, k, lo, hi) ==
    IF lo >= hi THEN lo
    ELSE LET mid == (lo + hi + 1) \div 2
             t == [r EXCEPT ![k] = mid]
         IN  IF BigLe(BigMul(t, t), n) THEN DigitSearch(n, r, k, mid, hi)
                                       ELSE DigitSearch(n, r, k, lo, mid - 1)

\* The digits of the greatest number whose square is at most n, settled from
\* place k down, the places above k being those of r
RECURSIVE SqrtSearch(_, _, _)
SqrtSearch(n, r, k) ==
    IF k = 0 THEN r
    ELSE SqrtSearch(n, [r EXCEPT ![k] = DigitSearch(n, r, k, 0, Milli - 1)], k - 1)

\* The greatest r in lo..hi with r * r <= v, for an integer v below 1000 ^ 3
RECURSIVE SmallSqrtSearch(_, _, _)
SmallSqrtSearch(v, lo, hi) ==
    IF lo >= hi THEN lo
    ELSE LET mid == (lo + hi + 1) \div 2
         IN  IF mid * mid <= v THEN SmallSqrtSearch(v, mid, hi)
                               ELSE SmallSqrtSearch(v, lo, mid - 1)

RECURSIVE Value(_)
Value(d) == IF d = <<>> THEN 0 ELSE Head(d) + Milli * Value(Tail(d))

\* Math.sqrt of a number of millionths given as digits: the digits of the
\* root in thousandths, to the nearest (<< 200, 46 >> is 46.2).  Up to three
\* digits the number is an integer of the model and its root is at most
\* 31622; beyond, the root has half as many digits as the number, rounded up.
Sqrt(n) ==
    IF Len(n) <= 3
    THEN LET v == Value(n)
             r == SmallSqrtSearch(v, 0, 31622)
         IN  Digits(IF v - r * r > r THEN r + 1 ELSE r)
    ELSE LET places == (Len(n) + 1) \div 2
             r == SqrtSearch(n, [k \in 1..places |-> 0], places)
         IN  IF BigLe(BigAdd(BigAdd(BigMul(r, r), r), << 1 >>), n)
             THEN BigAdd(r, << 1 >>)
             ELSE r

\* The greatest q in lo..hi with q * q * n <= m, for digits n and m and hi
\* at most 46340, whose square is an integer of the model
RECURSIVE RatioSearch(_, _, _, _)
RatioSearch(m, n, lo, hi) ==
    IF lo >= hi THEN lo
    ELSE LET mid == (lo + hi + 1) \div 2
         IN  IF BigLe(BigMul(Digits(mid * mid), n), m) THEN RatioSearch(m, n, mid, hi)
                                                       ELSE RatioSearch(m, n, lo, mid - 1)

\* a / Math.sqrt(n) to the nearest thousandth, for digits n of millionths
\* with a ** 2 <= n: the quotient by the root itself, not by the root
\* rounded to a thousandth
DivSqrt(a, n) ==
    LET m == BigMul(Sq(a), << 0, 0, 1 >>)
        q == RatioSearch(m, n, 0, Milli)
        r == IF BigLe(BigMul(Sq(2 * q + 1), n), BigMul(m, << 4 >>)) THEN q + 1 ELSE q
    IN  IF a = 0 THEN 0 ELSE IF a < 0 THEN 0 - r ELSE r

\* The product of a and b, a number of millionths beyond the integers of the
\* model, to the nearest thousandth: its digits without the last one, after
\* half a thousandth is added
MulDigits(a, b) ==
    LET p == BigMul(Digits(Abs(a)), Digits(Abs(b)))
    IN  IF (a < 0) = (b < 0) THEN Value(Tail(BigAdd(p, << 500 >>)))
                             ELSE 0 - Value(Tail(BigAdd(p, << 499 >>)))

\* a * b to the nearest thousandth: up to 46340 thousandths each, the product
\* of the two is an integer of the model
MulValues(a, b) ==
    IF a \in (0 - 46340)..46340 /\ b \in (0 - 46340)..46340
    THEN (a * b + 500) \div Milli
    ELSE MulDigits(a, b)

\* number * number, each operand evaluated once
Mul(a, b) == CHOOSE p \in {MulValues(x, y) : x \in {a}, y \in {b}} : TRUE

At(m, i) == m[i + 1]

Vec(x, y, z) == [x |-> x, y |-> y, z |-> z]

RECURSIVE Flatten(_)
Flatten(ss) == IF ss = <<>> THEN <<>> ELSE Head(ss) \o Flatten(Tail(ss))

---------------------------------------------------------------------------
(* Maps *)

MapHas(m, k) == \E n \in 1..Len(m) : m[n].key = k

MapGet(m, k) == m[CHOOSE n \in 1..Len(m) : m[n].key = k].value

---------------------------------------------------------------------------
(* Options *)

DEFAULT_OPTIONS ==
    [enabled     |-> TRUE,
     drawJoints  |-> TRUE,
     drawBones   |-> TRUE,
     drawAxes    |-> FALSE,
     jointRadius |-> Fx(10),
     rootScale   |-> 1600,
     boneColor   |-> [r |-> 500, g |-> 500, b |-> 500],
     rootColor   |-> [r |-> 200, g |-> 1000, b |-> 200],
     border      |-> 200]

OptionFields == DOMAIN DEFAULT_OPTIONS

---------------------------------------------------------------------------
(* The debug renderer's calls *)

Tag(entityId, bone, site, isStandalone) ==
    [entity |-> entityId, bone |-> bone, site |-> site, standalone |-> isStandalone]

DrawLine(start, end, color, tag) ==
    [op |-> "drawLine", start |-> start, end |-> end, color |-> color,
     entity |-> tag.entity, bone |-> tag.bone, site |-> tag.site,
     standalone |-> tag.standalone]

DrawPoint(pos, color, r, border, tag) ==
    [op |-> "drawPoint", pos |-> pos, color |-> color, r |-> r, border |-> border,
     entity |-> tag.entity, bone |-> tag.bone, site |-> tag.site,
     standalone |-> tag.standalone]

drawAxis(origin, xAxis, yAxis, zAxis, scale, tag) ==
    << DrawLine(origin,
                Vec(origin.x + Mul(xAxis.x, scale), origin.y + Mul(xAxis.y, scale),
                    origin.z + Mul(xAxis.z, scale)),
                [r |-> Fx(1), g |-> 0, b |-> 0], tag),
       DrawLine(origin,
                Vec(origin.x + Mul(yAxis.x, scale), origin.y + Mul(yAxis.y, scale),
                    origin.z + Mul(yAxis.z, scale)),
                [r |-> 0, g |-> Fx(1), b |-> 0], tag),
       DrawLine(origin,
                Vec(origin.x + Mul(zAxis.x, scale), origin.y + Mul(zAxis.y, scale),
                    origin.z + Mul(zAxis.z, scale)),
                [r |-> 0, g |-> 0, b |-> Fx(1)], tag) >>

segments == 12

\* Math.cos((i / segments) * Math.PI * 2) and Math.sin of the same angle, i = 0..12
CosTable == <<1000, 866, 500, 0, -500, -866, -1000, -866, -500, 0, 500, 866, 1000>>
SinTable == <<0, 500, 866, 1000, 866, 500, 0, -500, -866, -1000, -866, -500, 0>>

Cos(i) == CosTable[i + 1]
Sin(i) == SinTable[i + 1]

\* The first `prev` of each circle
CircleStart(center, radius, plane) ==
    IF plane = "YZ" THEN Vec(center.x, center.y + radius, center.z)
    ELSE Vec(center.x + radius, center.y, center.z)

\* `next` of step i of each circle
CircleNext(center, radius, plane, i) ==
    IF plane = "XY"
    THEN Vec(center.x + Mul(Cos(i), radius), center.y + Mul(Sin(i), radius), center.z)
    ELSE IF plane = "YZ"
    THEN Vec(center.x, center.y + Mul(Cos(i), radius), center.z + Mul(Sin(i), radius))
    ELSE Vec(center.x + Mul(Cos(i), radius), center.y, center.z + Mul(Sin(i), radius))

Circle(center, radius, color, plane, tag) ==
    [i \in 1..segments |->
        DrawLine(IF i = 1 THEN CircleStart(center, radius, plane)
                          ELSE CircleNext(center, radius, plane, i - 1),
                 CircleNext(center, radius, plane, i), color, tag)]

drawWireSphere(center, radius, color, tag) ==
    Circle(center, radius, color, "XY", tag)
    \o Circle(center, radius, color, "YZ", tag)
    \o Circle(center, radius, color, "XZ", tag)

---------------------------------------------------------------------------
(* drawSkeleton *)

OriginAxisScale == 600

RootAxisFactor == 350

RootRadiusFactor == 300

BoneAxisScale == 300

\* Manual matrix multiplication helper for points
transform_noTranslation(worldMat, x, y, z) ==
    Vec(Mul(At(worldMat, 0), x) + Mul(At(worldMat, 4), y) + Mul(At(worldMat, 8), z),
        Mul(At(worldMat, 1), x) + Mul(At(worldMat, 5), y) + Mul(At(worldMat, 9), z),
        Mul(At(worldMat, 2), x) + Mul(At(worldMat, 6), y) + Mul(At(worldMat, 10), z))

transform(worldMat, x, y, z) ==
    Vec(Mul(At(worldMat, 0), x) + Mul(At(worldMat, 4), y) + Mul(At(worldMat, 8), z)
            + At(worldMat, 12),
        Mul(At(worldMat, 1), x) + Mul(At(worldMat, 5), y) + Mul(At(worldMat, 9), z)
            + At(worldMat, 13),
        Mul(At(worldMat, 2), x) + Mul(At(worldMat, 6), y) + Mul(At(worldMat, 10), z)
            + At(worldMat, 14))

\* Manual matrix rotation helper (ignores translation) for axes
rotate(worldMat, x, y, z) ==
    Vec(Mul(At(worldMat, 0), x) + Mul(At(worldMat, 4), y) + Mul(At(worldMat, 8), z),
        Mul(At(worldMat, 1), x) + Mul(At(worldMat, 5), y) + Mul(At(worldMat, 9), z),
        Mul(At(worldMat, 2), x) + Mul(At(worldMat, 6), y) + Mul(At(worldMat, 10), z))

\* engineInstance.sceneGraph.getWorldMatrix(id) returned a matrix
HasWorldMatrix(id) == id \in DOMAIN sceneGraph

\* if (isStandalone) { ... this.drawAxis(debug, origin, ex, ey, ez, 0.6); }
originTriad_followsDrawAxes(worldMat, entityId, isStandalone) ==
    IF isStandalone /\ options.drawAxes
    THEN drawAxis(Vec(At(worldMat, 12), At(worldMat, 13), At(worldMat, 14)),
                  Vec(At(worldMat, 0), At(worldMat, 1), At(worldMat, 2)),
                  Vec(At(worldMat, 4), At(worldMat, 5), At(worldMat, 6)),
                  Vec(At(worldMat, 8), At(worldMat, 9), At(worldMat, 10)),
                  OriginAxisScale, Tag(entityId, -1, "origin", isStandalone))
    ELSE <<>>

originTriad(worldMat, entityId, isStandalone) ==
    IF isStandalone
    THEN LET origin == Vec(At(worldMat, 12), At(worldMat, 13), At(worldMat, 14))
             ex == Vec(At(worldMat, 0), At(worldMat, 1), At(worldMat, 2))
             ey == Vec(At(worldMat, 4), At(worldMat, 5), At(worldMat, 6))
             ez == Vec(At(worldMat, 8), At(worldMat, 9), At(worldMat, 10))
         IN  drawAxis(origin, ex, ey, ez, OriginAxisScale,
                      Tag(entityId, -1, "origin", isStandalone))
    ELSE <<>>

\* const isRoot = p === -1 || p === undefined || p === null;
isRoot(p) == (p.type = "number" /\ p.value = -1) \/ p.type = "undefined" \/ p.type = "null"

\* liveBoneIds && liveBoneIds[i]  (liveBoneIds = engineInstance.skeletonMap.get(entityId))
HasLiveBoneId(entityId, i) ==
    /\ MapHas(skeletonMap, entityId)
    /\ LET liveBoneIds == MapGet(skeletonMap, entityId)
       IN  i < Len(liveBoneIds) /\ liveBoneIds[i + 1] /= ""

LiveBoneId(entityId, i) == MapGet(skeletonMap, entityId)[i + 1]

\* liveWm[c]**2 + liveWm[c+1]**2 + liveWm[c+2]**2, exactly
ColumnSquares(liveWm, c) ==
    BigAdd(BigAdd(Sq(At(liveWm, c)), Sq(At(liveWm, c + 1))), Sq(At(liveWm, c + 2)))

\* Math.sqrt(liveWm[c]**2 + liveWm[c+1]**2 + liveWm[c+2]**2) || 1, as the
\* digits of a number of thousandths
ColumnLength(liveWm, c) ==
    LET l == Sqrt(ColumnSquares(liveWm, c))
    IN  IF l = <<>> THEN Digits(Fx(1)) ELSE l

\* { x: liveWm[c]/l, y: liveWm[c+1]/l, z: liveWm[c+2]/l }: by l when it is the
\* length exactly (the 1 of a zero column, or a root that is a number of
\* thousandths and an integer of the model), by the root itself otherwise
LiveAxis(liveWm, c) ==
    LET n == ColumnSquares(liveWm, c)
        l == ColumnLength(liveWm, c)
        over(a) == IF n = <<>> \/ (Len(l) <= 3 /\ Sq(Value(l)) = n)
                   THEN Div(a, Value(l))
                   ELSE DivSqrt(a, n)
    IN  Vec(over(At(liveWm, c)), over(At(liveWm, c + 1)), over(At(liveWm, c + 2)))

\* Fallback: BindPose + Parent Mesh
bindPose_pose(worldMat, bone) ==
    [pos |-> transform(worldMat, At(bone.bindPose, 12), At(bone.bindPose, 13),
                       At(bone.bindPose, 14)),
     rx  |-> rotate(worldMat, At(bone.bindPose, 0), At(bone.bindPose, 1),
                    At(bone.bindPose, 2)),
     ry  |-> rotate(worldMat, At(bone.bindPose, 4), At(bone.bindPose, 5),
                    At(bone.bindPose, 6)),
     rz  |-> rotate(worldMat, At(bone.bindPose, 8), At(bone.bindPose, 9),
                    At(bone.bindPose, 10)),
     usedLiveEntity |-> FALSE]

\* The pose of bone i: pos, rx, ry, rz and usedLiveEntity at line 188
bonePose_bindPoseFirst(worldMat, entityId, bones, i) ==
    bindPose_pose(worldMat, bones[i + 1])

bonePose(worldMat, entityId, bones, i) ==
    IF HasLiveBoneId(entityId, i) /\ HasWorldMatrix(LiveBoneId(entityId, i))
    THEN LET liveWm == sceneGraph[LiveBoneId(entityId, i)]
         IN  [pos |-> Vec(At(liveWm, 12), At(liveWm, 13), At(liveWm, 14)),
              rx  |-> LiveAxis(liveWm, 0),
              ry  |-> LiveAxis(liveWm, 4),
              rz  |-> LiveAxis(liveWm, 8),
              usedLiveEntity |-> TRUE]
    ELSE bindPose_pose(worldMat, bones[i + 1])

\* if (isRoot) { root axis; root sphere }
rootMarker_sphereFirst(entityId, pose, i, isStandalone) ==
    (IF options.drawJoints
     THEN drawWireSphere(pose.pos, Mul(RootRadiusFactor, options.rootScale),
                         options.rootColor, Tag(entityId, i, "rootSphere", isStandalone))
     ELSE <<>>)
    \o
    (IF isStandalone \/ options.drawAxes
     THEN drawAxis(pose.pos, pose.rx, pose.ry, pose.rz,
                   Mul(RootAxisFactor, options.rootScale),
                   Tag(entityId, i, "rootAxis", isStandalone))
     ELSE <<>>)

rootMarker_always(entityId, pose, i, isStandalone) ==
    drawAxis(pose.pos, pose.rx, pose.ry, pose.rz, Mul(RootAxisFactor, options.rootScale),
             Tag(entityId, i, "rootAxis", isStandalone))
    \o drawWireSphere(pose.pos, Mul(RootRadiusFactor, options.rootScale),
                      options.rootColor, Tag(entityId, i, "rootSphere", isStandalone))

rootMarker(entityId, pose, i, isStandalone) ==
    LET drawRootAxis == isStandalone \/ options.drawAxes
    IN  (IF drawRootAxis
         THEN LET axisScale == Mul(RootAxisFactor, options.rootScale)
              IN  drawAxis(pose.pos, pose.rx, pose.ry, pose.rz, axisScale,
                           Tag(entityId, i, "rootAxis", isStandalone))
         ELSE <<>>)
        \o
        (IF options.drawJoints
         THEN LET radius == Mul(RootRadiusFactor, options.rootScale)
              IN  drawWireSphere(pose.pos, radius, options.rootColor,
                                 Tag(entityId, i, "rootSphere", isStandalone))
         ELSE <<>>)

\* else { standard joint dot }
\* bone.visual is [size, color]; an absent field is <<>>, a present one <<value>>
jointDot(entityId, bone, pose, i, isStandalone) ==
    IF options.drawJoints
    THEN LET mult  == IF bone.visual.size = <<>> THEN Fx(1) ELSE bone.visual.size[1]
             r     == Mul(options.jointRadius, mult)
             color == IF bone.visual.color = <<>>
                      THEN [r |-> Fx(1), g |-> 500, b |-> 0]
                      ELSE bone.visual.color[1]
         IN  << DrawPoint(pose.pos, color, r, options.border,
                          Tag(entityId, i, "joint", isStandalone)) >>
    ELSE <<>>

\* if (this.options.drawAxes && !isRoot)
boneAxes(entityId, bone, pose, i, isStandalone) ==
    IF options.drawAxes /\ ~isRoot(bone.parentIndex)
    THEN drawAxis(pose.pos, pose.rx, pose.ry, pose.rz, BoneAxisScale,
                  Tag(entityId, i, "axis", isStandalone))
    ELSE <<>>

\* pPos at line 243
parentPos_bindPoseOnly(worldMat, entityId, bones, p) ==
    transform(worldMat, At(bones[p + 1].bindPose, 12), At(bones[p + 1].bindPose, 13),
              At(bones[p + 1].bindPose, 14))

parentPos(worldMat, entityId, bones, p) ==
    IF HasLiveBoneId(entityId, p) /\ HasWorldMatrix(LiveBoneId(entityId, p))
    THEN LET pWm == sceneGraph[LiveBoneId(entityId, p)]
         IN  Vec(At(pWm, 12), At(pWm, 13), At(pWm, 14))
    ELSE LET parent == bones[p + 1]
         IN  IF parent.bindPose /= <<>>
             THEN transform(worldMat, At(parent.bindPose, 12), At(parent.bindPose, 13),
                            At(parent.bindPose, 14))
             ELSE Vec(0, 0, 0)

\* Draw bone connection line
boneLine(worldMat, entityId, bones, pose, i, isStandalone) ==
    LET p == bones[i + 1].parentIndex
    IN  IF /\ options.drawBones
           /\ ~isRoot(p)
           /\ p.type = "number"
           /\ p.value >= 0
           /\ p.value < Len(bones)
        THEN << DrawLine(parentPos(worldMat, entityId, bones, p.value), pose.pos,
                         options.boneColor, Tag(entityId, i, "boneLine", isStandalone)) >>
        ELSE <<>>

\* The body of the loop over the bones, for bone i
boneBody(worldMat, entityId, bones, i, isStandalone) ==
    LET bone == bones[i + 1]
        pose == bonePose(worldMat, entityId, bones, i)
    IN  (IF isRoot(bone.parentIndex)
         THEN rootMarker(entityId, pose, i, isStandalone)
         ELSE jointDot(entityId, bone, pose, i, isStandalone))
        \o boneAxes(entityId, bone, pose, i, isStandalone)
        \o boneLine(worldMat, entityId, bones, pose, i, isStandalone)

\* for (let i = 0; i < bones.length; i++)
boneLoop_descending(worldMat, entityId, bones, isStandalone) ==
    Flatten([k \in 1..Len(bones) |->
                boneBody(worldMat, entityId, bones, Len(bones) - k, isStandalone)])

boneLoop(worldMat, entityId, bones, isStandalone) ==
    Flatten([k \in 1..Len(bones) |-> boneBody(worldMat, entityId, bones, k - 1, isStandalone)])

\* An asset is [hasSkeleton, bonesIsArray, bones]
drawSkeleton_originFirst(assetId, entityId, isStandalone) ==
    IF ~HasWorldMatrix(entityId) THEN <<>>
    ELSE originTriad(sceneGraph[entityId], entityId, isStandalone)
         \o (IF assetId \notin DOMAIN assets THEN <<>>
             ELSE IF ~assets[assetId].hasSkeleton \/ ~assets[assetId].bonesIsArray THEN <<>>
             ELSE boneLoop(sceneGraph[entityId], entityId, assets[assetId].bones,
                           isStandalone))

drawSkeleton(assetId, entityId, isStandalone) ==
    IF assetId \notin DOMAIN assets THEN <<>>
    ELSE LET asset == assets[assetId]
         IN  IF ~asset.hasSkeleton \/ ~asset.bonesIsArray THEN <<>>
             ELSE IF ~HasWorldMatrix(entityId) THEN <<>>
             ELSE LET worldMat == sceneGraph[entityId]
                  IN  originTriad(worldMat, entityId, isStandalone)
                      \o boneLoop(worldMat, entityId, asset.bones, isStandalone)

---------------------------------------------------------------------------
(* update *)

Call(assetId, entityId, isStandalone) ==
    [assetId |-> assetId, entityId |-> entityId, isStandalone |-> isStandalone]

\* 1. Draw Standalone Skeletons
standalonePass_activeOnly ==
    LET live == SelectSeq(skeletonEntityAssetMap,
                          LAMBDA x : /\ x.key \in DOMAIN idToIndex
                                     /\ idToIndex[x.key] \in DOMAIN isActive
                                     /\ isActive[idToIndex[x.key]])
    IN  [k \in 1..Len(live) |-> Call(live[k].value, live[k].key, TRUE)]

standalonePass ==
    [k \in 1..Len(skeletonEntityAssetMap) |->
        Call(skeletonEntityAssetMap[k].value, skeletonEntityAssetMap[k].key, TRUE)]

\* The body of skeletonMap.forEach without the has() check
skeletalMeshEntry_ignoresActive(entityId) ==
    IF entityId \notin DOMAIN idToIndex THEN <<>>
    ELSE LET meshIntId == meshType[idToIndex[entityId]]
         IN  IF meshIntId \in DOMAIN meshIntToUuid /\ meshIntToUuid[meshIntId] /= ""
             THEN << Call(meshIntToUuid[meshIntId], entityId, FALSE) >>
             ELSE <<>>

skeletalMeshEntry(entityId) ==
    IF entityId \notin DOMAIN idToIndex THEN <<>>
    ELSE LET idx == idToIndex[entityId]
         IN  IF ~(idx \in DOMAIN isActive /\ isActive[idx]) THEN <<>>
             ELSE LET meshIntId == meshType[idx]
                  IN  IF meshIntId \in DOMAIN meshIntToUuid /\ meshIntToUuid[meshIntId] /= ""
                      THEN << Call(meshIntToUuid[meshIntId], entityId, FALSE) >>
                      ELSE <<>>

\* 2. Draw Skeletal Meshes
skeletalMeshPass_noDedup ==
    Flatten([k \in 1..Len(skeletonMap) |-> skeletalMeshEntry(skeletonMap[k].key)])

skeletalMeshPass_skipsOnlyDrawn ==
    Flatten([k \in 1..Len(skeletonMap) |->
                LET e == skeletonMap[k].key
                IN  IF /\ MapHas(skeletonEntityAssetMap, e)
                       /\ drawSkeleton(MapGet(skeletonEntityAssetMap, e), e, TRUE) /= <<>>
                    THEN <<>>
                    ELSE skeletalMeshEntry(e)])

skeletalMeshPass ==
    Flatten([k \in 1..Len(skeletonMap) |->
                IF MapHas(skeletonEntityAssetMap, skeletonMap[k].key) THEN <<>>
                ELSE skeletalMeshEntry(skeletonMap[k].key)])

drawCalls_meshFirst == skeletalMeshPass \o standalonePass

drawCalls == standalonePass \o skeletalMeshPass

\* The drawSkeleton invocations one update() makes
updateCalls_ignoresEnabled == IF ~debugRenderer THEN <<>> ELSE drawCalls

updateCalls ==
    IF ~options.enabled THEN <<>>
    ELSE IF ~debugRenderer THEN <<>>
    ELSE drawCalls

\* What the invocations cs emit on the debug renderer
emitted(cs) ==
    Flatten([k \in 1..Len(cs) |->
                drawSkeleton(cs[k].assetId, cs[k].entityId, cs[k].isStandalone)])

\* r after 'this.options.jointRadius *= mult' for each joint point of pts, where
\* the code has 'let r = this.options.jointRadius; r *= mult'
RECURSIVE radiusInPlace(_, _)
radiusInPlace(r, pts) ==
    IF pts = <<>> THEN r
    ELSE radiusInPlace(Mul(r, Div(Head(pts).r, options.jointRadius)), Tail(pts))

update_radiusInPlace ==
    /\ calls' = updateCalls
    /\ prims' = emitted(updateCalls)
    /\ runs' = IF runs < MaxRuns THEN runs + 1 ELSE runs
    /\ options' = [options EXCEPT
                      !.jointRadius =
                          radiusInPlace(@, SelectSeq(emitted(updateCalls),
                                                     LAMBDA q : q.op = "drawPoint"))]
    /\ UNCHANGED <<env, loop>>

update ==
    /\ calls' = updateCalls
    /\ prims' = emitted(updateCalls)
    /\ runs' = IF runs < MaxRuns THEN runs + 1 ELSE runs
    /\ UNCHANGED <<options, env, loop>>

setOptions_replacing(partial) ==
    /\ options' = [f \in OptionFields |->
                      IF f \in DOMAIN partial THEN partial[f] ELSE DEFAULT_OPTIONS[f]]
    /\ runs' = IF options' = options THEN runs ELSE 0
    /\ UNCHANGED <<env, prims, calls, loop>>

setOptions(partial) ==
    /\ options' = [f \in OptionFields |->
                      IF f \in DOMAIN partial THEN partial[f] ELSE options[f]]
    /\ runs' = IF options' = options THEN runs ELSE 0
    /\ UNCHANGED <<env, prims, calls, loop>>

setActive(assetId, entityId) == UNCHANGED vars

setActiveAsset(assetId) == UNCHANGED vars


---------------------------------------------------------------------------
(* The inputs: matrices, assets and the collaborators' contents *)

MaxBones == 2

MaxLive == 2

\* A column-major 4x4 matrix from its three basis columns and its translation
Mat(c0, c1, c2, t) ==
    << Fx(c0[1]), Fx(c0[2]), Fx(c0[3]), 0,
       Fx(c1[1]), Fx(c1[2]), Fx(c1[3]), 0,
       Fx(c2[1]), Fx(c2[2]), Fx(c2[3]), 0,
       Fx(t[1]),  Fx(t[2]),  Fx(t[3]),  Fx(1) >>

Identity == Mat(<<1, 0, 0>>, <<0, 1, 0>>, <<0, 0, 1>>, <<0, 0, 0>>)

Translation(t) == Mat(<<1, 0, 0>>, <<0, 1, 0>>, <<0, 0, 1>>, t)

\* Instance world matrices: a pure translation; a quarter turn about Z, scaled by 2
MoveTo == Translation(<<3, -2, 5>>)
TurnAndScale == Mat(<<0, 2, 0>>, <<-2, 0, 0>>, <<0, 0, 2>>, <<1, 2, 3>>)

\* Live bone matrices: a scaled rotation; one with two zero columns; a
\* translation; one whose third column has length Math.sqrt(2)
LiveA == Mat(<<3, 4, 0>>, <<-4, 3, 0>>, <<0, 0, 5>>, <<7, 8, 9>>)
LiveDegenerate == Mat(<<0, 0, 0>>, <<0, 2, 0>>, <<0, 0, 0>>, <<4, 4, 4>>)
LiveB == Translation(<<-1, 6, 2>>)
LiveSkewed == Mat(<<1, 0, 0>>, <<0, 1, 0>>, <<0, -1, 1>>, <<-1, 6, 2>>)

\* Bind poses by bone index
BindOf(i) ==
    IF i = 0 THEN Identity
    ELSE IF i = 1 THEN Translation(<<0, 2, 0>>)
    ELSE Mat(<<0, 1, 0>>, <<-1, 0, 0>>, <<0, 0, 1>>, <<1, i, 0>>)

Num(n) == [type |-> "number", value |-> n]
Undefined == [type |-> "undefined", value |-> 0]
Null == [type |-> "null", value |-> 0]

NoVisual == [size |-> <<>>, color |-> <<>>]

Bone(p, i, visual) == [parentIndex |-> p, bindPose |-> BindOf(i), visual |-> visual]

Skeleton(bones) == [hasSkeleton |-> TRUE, bonesIsArray |-> TRUE, bones |-> bones]

\* A three-bone chain: root, a child with visual hints, a grandchild
Chain ==
    Skeleton(<< Bone(Num(-1), 0, NoVisual),
                Bone(Num(0), 1, [size |-> <<2000>>,
                                 color |-> << [r |-> 0, g |-> 300, b |-> 1000] >>]),
                Bone(Num(1), 2, NoVisual) >>)

\* The registry every scenario shares; the id "gone" is not registered
BaseAssets ==
    [a \in {"chain", "noSkeleton", "notArray"} |->
        IF a = "chain" THEN Chain
        ELSE IF a = "noSkeleton"
        THEN [hasSkeleton |-> FALSE, bonesIsArray |-> FALSE, bones |-> <<>>]
        ELSE [hasSkeleton |-> TRUE, bonesIsArray |-> FALSE, bones |-> <<>>]]

SeqsUpTo(S, n) == UNION {[1..k -> S] : k \in 0..n}

Entry(k, v) == [key |-> k, value |-> v]

Scenario(sa, sm, sg, ix, act, mt, uu, reg, dbg) ==
    [standalone |-> sa, skel |-> sm, graph |-> sg, index |-> ix, active |-> act,
     mesh |-> mt, uuid |-> uu, registry |-> reg, debug |-> dbg]

\* Live bone id lists: "" is an empty slot; each bone entity drives one bone
LiveLists ==
    {l \in SeqsUpTo({"", "J1", "J2"}, MaxLive) :
        \A a, b \in 1..Len(l) : (a /= b /\ l[a] /= "") => l[a] /= l[b]}

LiveMatrices ==
    { ("J1" :> LiveA) @@ ("J2" :> LiveB),
      ("J1" :> LiveDegenerate),
      ("J2" :> LiveSkewed) }

\* One instance E1 of the chain with a live overlay: in both maps (drawn as
\* standalone) under each world matrix, or a skeletal mesh only
PoseScenarios ==
    { Scenario(IF both THEN << Entry("E1", "chain") >> ELSE <<>>,
               << Entry("E1", l) >>,
               ("E1" :> w) @@ lm,
               ("E1" :> 0), (0 :> TRUE), (0 :> 7), (7 :> "chain"),
               BaseAssets, TRUE) :
        both \in {TRUE}, w \in {Identity, TurnAndScale},
        l \in LiveLists, lm \in LiveMatrices }
    \cup
    { Scenario(<< Entry("E1", "chain") >>, << Entry("E1", l) >>,
               ("E1" :> MoveTo) @@ lm,
               ("E1" :> 0), (0 :> TRUE), (0 :> 7), (7 :> "chain"),
               BaseAssets, TRUE) :
        l \in LiveLists, lm \in {("J1" :> LiveA) @@ ("J2" :> LiveB)} }
    \cup
    { Scenario(<<>>, << Entry("E1", l) >>,
               ("E1" :> TurnAndScale) @@ lm,
               ("E1" :> 0), (0 :> TRUE), (0 :> 7), (7 :> "chain"),
               BaseAssets, TRUE) :
        l \in LiveLists, lm \in {("J1" :> LiveA) @@ ("J2" :> LiveB)} }

\* Two instances E1, E2: membership of the two maps, the component store, the
\* assets they name, and whether the scene graph knows E1
E1Profiles ==
    { p \in [sa : {"", "chain", "gone", "noSkeleton", "notArray"},
             inMap : BOOLEAN,
             ecs : {"noIndex", "inactive", "active", "unmapped"},
             world : BOOLEAN] :
        p.world \/ p.sa \in {"", "chain"} }

E2Profiles == {"absent", "standaloneBefore", "meshAfter"}

OrchestrationScenario(p1, p2) ==
    LET sa1 == IF p1.sa /= "" THEN << Entry("E1", p1.sa) >> ELSE <<>>
        sm1 == IF p1.inMap THEN << Entry("E1", << "J1" >>) >> ELSE <<>>
        sa2 == IF p2 = "standaloneBefore"
               THEN << Entry("E2", "chain") >> ELSE <<>>
        sm2 == IF p2 /= "absent" THEN << Entry("E2", <<>>) >> ELSE <<>>
        first == p2 = "standaloneBefore"
        ix1 == IF p1.ecs = "noIndex" THEN <<>> ELSE ("E1" :> 0)
    IN  Scenario(IF first THEN sa2 \o sa1 ELSE sa1 \o sa2,
                 IF first THEN sm2 \o sm1 ELSE sm1 \o sm2,
                 (IF p1.world THEN ("E1" :> MoveTo) ELSE <<>>) @@ ("E2" :> TurnAndScale),
                 ix1 @@ ("E2" :> 1),
                 (0 :> (p1.ecs /= "inactive")) @@ (1 :> TRUE),
                 (0 :> (IF p1.ecs = "unmapped" THEN 9 ELSE 7)) @@ (1 :> 7),
                 (7 :> "chain"),
                 BaseAssets, TRUE)

OrchestrationScenarios ==
    { OrchestrationScenario(p1, p2) :
        p1 \in E1Profiles,
        p2 \in E2Profiles }

\* One instance E1 of a generated skeleton of up to MaxBones bones: standalone
\* with every assignment of numeric parent indices or of absent ones, a
\* skeletal mesh with every assignment of roots and children of bone 0
ParentChoices == {Num(n) : n \in -2..MaxBones}

AbsentChoices == {Undefined, Null}

RootChoices == {Num(-1), Num(0), Undefined, Null}

GeneratedSkeletons(choices) ==
    { Skeleton([i \in 1..Len(ps) |-> Bone(ps[i], i - 1, NoVisual)]) :
        ps \in SeqsUpTo(choices, MaxBones) }

HierarchyScenarios ==
    { Scenario(<< Entry("E1", "gen") >>, <<>>,
               ("E1" :> TurnAndScale),
               ("E1" :> 0), (0 :> TRUE), (0 :> 7), (7 :> "gen"),
               ("gen" :> sk) @@ BaseAssets, TRUE) :
        sk \in GeneratedSkeletons(ParentChoices) \cup GeneratedSkeletons(AbsentChoices) }
    \cup
    { Scenario(<<>>, << Entry("E1", <<>>) >>,
               ("E1" :> TurnAndScale),
               ("E1" :> 0), (0 :> TRUE), (0 :> 7), (7 :> "gen"),
               ("gen" :> sk) @@ BaseAssets, TRUE) :
        sk \in GeneratedSkeletons(RootChoices) }

\* No debug renderer attached
HeadlessScenarios ==
    { Scenario(<< Entry("E1", "chain") >>, << Entry("E2", <<>>) >>,
               ("E1" :> MoveTo) @@ ("E2" :> Identity),
               ("E2" :> 1), (1 :> TRUE), (1 :> 7), (7 :> "chain"),
               BaseAssets, FALSE) }

Scenarios ==
    PoseScenarios \cup OrchestrationScenarios \cup HierarchyScenarios \cup HeadlessScenarios

---------------------------------------------------------------------------
(* The state machine *)

\* No update() is under way
Idle == [pc |-> "idle", n |-> 0, i |-> 0, visits |-> <<>>]

InitWith(scenarios) ==
    /\ options = DEFAULT_OPTIONS
    /\ \E sc \in scenarios :
        /\ skeletonEntityAssetMap = sc.standalone
        /\ skeletonMap = sc.skel
        /\ sceneGraph = sc.graph
        /\ idToIndex = sc.index
        /\ isActive = sc.active
        /\ meshType = sc.mesh
        /\ meshIntToUuid = sc.uuid
        /\ assets = sc.registry
        /\ debugRenderer = sc.debug
    /\ prims = <<>>
    /\ calls = <<>>
    /\ runs = 0
    /\ loop = Idle

Init == InitWith(Scenarios)

Flags == {"enabled", "drawJoints", "drawBones", "drawAxes"}

\* The partial objects setOptions is called with
Partials ==
    {[f \in {flag} |-> b] : flag \in Flags, b \in BOOLEAN}
    \cup { <<>>, [drawJoints |-> FALSE, drawBones |-> FALSE] }

Next ==
    \/ update
    \/ \E partial \in Partials : setOptions(partial)
    \/ \E assetId \in {"chain", "null"}, entityId \in {"E1"} :
          setActive(assetId, entityId)
    \/ \E assetId \in {"chain"} : setActiveAsset(assetId)

Spec == Init /\ [][Next]_vars

---------------------------------------------------------------------------
(* update() one loop iteration at a time *)

\* The three early returns of drawSkeleton are passed
passesGuards(assetId, entityId) ==
    /\ assetId \in DOMAIN assets
    /\ assets[assetId].hasSkeleton
    /\ assets[assetId].bonesIsArray
    /\ HasWorldMatrix(entityId)

\* i++ : the index the loop over the bones continues with
nextBone_followsParent(bones, i) ==
    LET p == bones[i + 1].parentIndex
    IN  IF p.type = "number" /\ p.value >= 0 /\ p.value <= i THEN p.value ELSE i + 1

nextBone(bones, i) == i + 1

\* update() is entered: the guards, and the instances the two forEach will visit
beginUpdate ==
    /\ loop.pc = "idle"
    /\ calls' = updateCalls
    /\ prims' = <<>>
    /\ loop' = [pc |-> "call", n |-> 1, i |-> 0, visits |-> <<>>]
    /\ UNCHANGED <<options, env, runs>>

\* drawSkeleton is entered for the n-th instance: early return, or origin triad
enterSkeleton ==
    /\ loop.pc = "call"
    /\ loop.n <= Len(calls)
    /\ LET c == calls[loop.n]
       IN  IF passesGuards(c.assetId, c.entityId)
           THEN /\ prims' = prims \o originTriad(sceneGraph[c.entityId], c.entityId,
                                                  c.isStandalone)
                /\ loop' = [loop EXCEPT !.pc = "bone", !.i = 0]
           ELSE /\ prims' = prims
                /\ loop' = [loop EXCEPT !.n = @ + 1]
    /\ UNCHANGED <<options, env, calls, runs>>

\* One iteration of the loop over the bones
visitBone ==
    /\ loop.pc = "bone"
    /\ LET c == calls[loop.n]
           bones == assets[c.assetId].bones
       IN  /\ loop.i < Len(bones)
           /\ prims' = prims \o boneBody(sceneGraph[c.entityId], c.entityId, bones, loop.i,
                                          c.isStandalone)
           /\ loop' = [loop EXCEPT !.i = nextBone(bones, loop.i),
                                   !.visits = Append(@, <<loop.n, loop.i>>)]
    /\ UNCHANGED <<options, env, calls, runs>>

\* The loop over the bones ends: drawSkeleton returns
leaveSkeleton ==
    /\ loop.pc = "bone"
    /\ loop.i >= Len(assets[calls[loop.n].assetId].bones)
    /\ loop' = [loop EXCEPT !.pc = "call", !.n = @ + 1, !.i = 0]
    /\ UNCHANGED <<options, env, prims, calls, runs>>

\* Both forEach are through: update() returns
endUpdate ==
    /\ loop.pc = "call"
    /\ loop.n > Len(calls)
    /\ loop' = [loop EXCEPT !.pc = "idle", !.n = 0]
    /\ runs' = IF runs < MaxRuns THEN runs + 1 ELSE runs
    /\ UNCHANGED <<options, env, prims, calls>>

\* JavaScript runs update() to completion: setOptions is called between frames
setOptionsBetweenFrames(partial) == loop.pc = "idle" /\ setOptions(partial)

StepScenarios ==
    HierarchyScenarios \cup HeadlessScenarios
    \cup { OrchestrationScenario(p1, "meshAfter") : p1 \in {p \in E1Profiles : p.ecs = "active"} }

StepPartials ==
    { [drawAxes |-> TRUE], [drawJoints |-> FALSE, drawBones |-> FALSE], [enabled |-> FALSE] }

StepInit == InitWith(StepScenarios)

RunToCompletion == enterSkeleton \/ visitBone \/ leaveSkeleton \/ endUpdate

StepNext ==
    \/ beginUpdate
    \/ enterSkeleton
    \/ visitBone
    \/ leaveSkeleton
    \/ endUpdate
    \/ \E partial \in StepPartials : setOptionsBetweenFrames(partial)

StepSpec == StepInit /\ [][StepNext]_vars /\ WF_vars(RunToCompletion)


---------------------------------------------------------------------------
(* Reading a frame: what the checked properties speak about *)

\* prims and calls are those of an update() that read the present options
UpToDate == runs >= 1

\* ... and that update() passed both of its guards
Drew == UpToDate /\ options.enabled /\ debugRenderer

PrimsOf(e, i, site) ==
    SelectSeq(prims, LAMBDA q : q.entity = e /\ q.bone = i /\ q.site = site)

\* The asset, its skeleton and the instance's world matrix are all available
Resolves(assetId, entityId) ==
    /\ assetId \in DOMAIN assets
    /\ assets[assetId].hasSkeleton
    /\ assets[assetId].bonesIsArray
    /\ entityId \in DOMAIN sceneGraph

BonesOf(assetId) == assets[assetId].bones

BoneIndices(assetId) == 0..(Len(BonesOf(assetId)) - 1)

LiveIdsOf(e) == IF MapHas(skeletonMap, e) THEN MapGet(skeletonMap, e) ELSE <<>>

\* Bone i of instance e has a live entity id
HasLiveId(e, i) == i + 1 <= Len(LiveIdsOf(e)) /\ LiveIdsOf(e)[i + 1] /= ""

\* ... and the scene graph has a world matrix for it
HasLive(e, i) == HasLiveId(e, i) /\ LiveIdsOf(e)[i + 1] \in DOMAIN sceneGraph

LiveWm(e, i) == sceneGraph[LiveIdsOf(e)[i + 1]]

\* Elements 12, 13, 14 of a matrix
TranslationOf(m) == Vec(m[13], m[14], m[15])

\* Column k (0, 1, 2) of the upper 3x3 of a matrix
ColumnOf(m, k) == Vec(m[4 * k + 1], m[4 * k + 2], m[4 * k + 3])

\* A point under the full affine matrix m: upper 3x3 applied, translation added
Affine(m, v) ==
    Vec(Mul(m[1], v.x) + Mul(m[5], v.y) + Mul(m[9], v.z) + m[13],
        Mul(m[2], v.x) + Mul(m[6], v.y) + Mul(m[10], v.z) + m[14],
        Mul(m[3], v.x) + Mul(m[7], v.y) + Mul(m[11], v.z) + m[15])

Shift(v, dx, dy, dz) == Vec(v.x + dx, v.y + dy, v.z + dz)

RootRadius == Mul(RootRadiusFactor, options.rootScale)

\* The 36 wire-sphere lines sph are three 12-line circles around X: each starts
\* one radius from X along x, y, x and stays in the plane through X
SphereAround(sph, X) ==
    /\ Len(sph) = 3 * segments
    /\ sph[1].start = Shift(X, RootRadius, 0, 0)
    /\ sph[segments + 1].start = Shift(X, 0, RootRadius, 0)
    /\ sph[2 * segments + 1].start = Shift(X, RootRadius, 0, 0)
    /\ \A k \in 1..segments :
        /\ sph[k].start.z = X.z /\ sph[k].end.z = X.z
        /\ sph[segments + k].start.x = X.x /\ sph[segments + k].end.x = X.x
        /\ sph[2 * segments + k].start.y = X.y /\ sph[2 * segments + k].end.y = X.y

\* Every primitive of bone i of instance e is placed at X: the joint dot, the
\* origin of each triad line, the wire sphere's centre, the end of the line
\* from the parent
PlacedAt(e, i, X) ==
    /\ \A k \in 1..Len(prims) :
        (prims[k].entity = e /\ prims[k].bone = i) =>
            CASE prims[k].site = "joint" -> prims[k].pos = X
              [] prims[k].site \in {"axis", "rootAxis"} -> prims[k].start = X
              [] prims[k].site = "boneLine" -> prims[k].end = X
              [] prims[k].site = "rootSphere" -> TRUE
              [] OTHER -> FALSE
    /\ PrimsOf(e, i, "rootSphere") /= <<>> => SphereAround(PrimsOf(e, i, "rootSphere"), X)

\* Bone i of instance e has a joint marker: a dot, or the root's wire sphere
HasMarker(e, i) == PrimsOf(e, i, "joint") /= <<>> \/ PrimsOf(e, i, "rootSphere") /= <<>>

\* The invocations of the frame that got past drawSkeleton's three early returns
DrawnCalls == {n \in 1..Len(calls) : Resolves(calls[n].assetId, calls[n].entityId)}

---------------------------------------------------------------------------
(* Checked properties *)

\* C1: with options.enabled false, update() makes no drawPoint and no drawLine
\* call, whatever the maps, the registry, the scene graph, the component store
\* and the other options hold.
C1_DisabledEmitsNothing == (UpToDate /\ ~options.enabled) => prims = <<>>

C1_Witness ==
    /\ UpToDate /\ ~options.enabled /\ debugRenderer
    /\ options.drawJoints /\ options.drawBones /\ options.drawAxes
    /\ \E n \in 1..Len(drawCalls) : Resolves(drawCalls[n].assetId, drawCalls[n].entityId)
    /\ \E n \in 1..Len(drawCalls) : ~drawCalls[n].isStandalone

\* C2: a bone with a live entity whose world matrix the scene graph returns is
\* placed at that matrix's translation: its joint marker, its triads and the
\* end of its parent line, whatever its bind pose and the instance's world
\* matrix.
C2_LivePrecedence ==
    Drew =>
        \A n \in DrawnCalls :
            \A i \in BoneIndices(calls[n].assetId) :
                HasLive(calls[n].entityId, i) =>
                    PlacedAt(calls[n].entityId, i, TranslationOf(LiveWm(calls[n].entityId, i)))

C2_Witness ==
    /\ Drew /\ options.drawJoints /\ options.drawBones /\ options.drawAxes
    /\ \E n \in DrawnCalls :
        LET e == calls[n].entityId
            bones == BonesOf(calls[n].assetId)
        IN  /\ sceneGraph[e] /= Identity
            /\ \E i \in BoneIndices(calls[n].assetId) :
                /\ i >= 1
                /\ HasLive(e, i)
                /\ TranslationOf(LiveWm(e, i))
                      /= Affine(sceneGraph[e], TranslationOf(bones[i + 1].bindPose))
                /\ PrimsOf(e, i, "joint") /= <<>>
                /\ PrimsOf(e, i, "axis") /= <<>>
                /\ PrimsOf(e, i, "boneLine") /= <<>>
            /\ HasLive(e, 0) /\ PrimsOf(e, 0, "rootSphere") /= <<>>

\* C3: a bone without a live entity id, or whose live entity has no world
\* matrix, is placed at its bind-pose translation under the instance's full
\* affine world matrix: the raw bind-pose translation under an identity world
\* matrix, the world translation for a root-only skeleton with identity bind
\* pose.  A live id without a matrix does not suppress the bone, and the other
\* bones keep their live placement.
C3_FallbackPosition ==
    Drew =>
        \A n \in DrawnCalls :
            LET e == calls[n].entityId
                bones == BonesOf(calls[n].assetId)
                world == sceneGraph[e]
            IN  \A i \in BoneIndices(calls[n].assetId) :
                    ~HasLive(e, i) =>
                        LET b == TranslationOf(bones[i + 1].bindPose)
                        IN  /\ PlacedAt(e, i, Affine(world, b))
                            /\ world = Identity => PlacedAt(e, i, b)
                            /\ (Len(bones) = 1 /\ bones[1].bindPose = Identity)
                                  => PlacedAt(e, i, TranslationOf(world))
                            /\ options.drawJoints => HasMarker(e, i)
                            /\ HasLiveId(e, i) =>
                                  \A j \in BoneIndices(calls[n].assetId) :
                                      HasLive(e, j) =>
                                          PlacedAt(e, j, TranslationOf(LiveWm(e, j)))

C3_Witness ==
    /\ Drew /\ options.drawJoints /\ options.drawBones
    /\ \E n \in DrawnCalls :
        LET e == calls[n].entityId
        IN  /\ sceneGraph[e] = TurnAndScale
            /\ HasLiveId(e, 1) /\ ~HasLive(e, 1) /\ HasMarker(e, 1)
            /\ HasLive(e, 0)
            /\ ~HasLiveId(e, 2) /\ HasMarker(e, 2)
    /\ \E sk \in DOMAIN assets : Len(assets[sk].bones) = 3

\* C4: an entity that is a key of both maps gets exactly one drawSkeleton pass
\* per update(), the standalone one; none of its primitives comes from the
\* skeletal-mesh pass, whatever the component store and the mesh-type lookup
\* hold for it.
C4_DedupStandaloneOnce ==
    Drew =>
        \A n \in 1..Len(skeletonEntityAssetMap) :
            LET e == skeletonEntityAssetMap[n].key
                a == skeletonEntityAssetMap[n].value
            IN  MapHas(skeletonMap, e) =>
                    /\ Cardinality({k \in 1..Len(calls) : calls[k].entityId = e}) = 1
                    /\ \A k \in 1..Len(calls) :
                          calls[k].entityId = e =>
                              calls[k].isStandalone /\ calls[k].assetId = a
                    /\ \A k \in 1..Len(prims) : prims[k].entity = e => prims[k].standalone
                    /\ Len(PrimsOf(e, -1, "origin")) = IF Resolves(a, e) THEN 3 ELSE 0
                    /\ Resolves(a, e) =>
                          \A i \in BoneIndices(a) :
                              /\ Len(PrimsOf(e, i, "joint")) <= 1
                              /\ Len(PrimsOf(e, i, "boneLine")) <= 1
                              /\ Len(PrimsOf(e, i, "rootAxis")) = IF isRoot(BonesOf(a)[i + 1].parentIndex) THEN 3 ELSE 0

C4_Witness ==
    /\ Drew
    /\ \E n \in 1..Len(skeletonEntityAssetMap) :
        LET e == skeletonEntityAssetMap[n].key
        IN  /\ MapHas(skeletonMap, e)
            /\ Resolves(skeletonEntityAssetMap[n].value, e)
            /\ skeletalMeshEntry(e) /= <<>>
            /\ Resolves(skeletalMeshEntry(e)[1].assetId, e)
            /\ PrimsOf(e, 0, "rootAxis") /= <<>>

\* C5: with options.drawJoints false, update() emits no point primitive and no
\* wire-sphere joint marker for any bone of any instance, whatever drawBones
\* and drawAxes are.
C5_NoJointsNoMarkers ==
    (UpToDate /\ ~options.drawJoints) =>
        \A k \in 1..Len(prims) :
            /\ prims[k].op = "drawLine"
            /\ prims[k].site \in {"origin", "rootAxis", "axis", "boneLine"}

C5_Witness ==
    /\ Drew /\ ~options.drawJoints /\ options.drawBones /\ options.drawAxes
    /\ \E k \in 1..Len(prims) : prims[k].site = "rootAxis" /\ prims[k].standalone
    /\ \E k \in 1..Len(prims) : prims[k].site = "rootAxis" /\ ~prims[k].standalone
    /\ \E k \in 1..Len(prims) : prims[k].site = "boneLine"


\* Where bone i of the invocation c is placed: the translation of its live
\* world matrix if it has one, else its bind-pose translation under the
\* instance's world matrix
ExpectedPos(c, i) ==
    IF HasLive(c.entityId, i)
    THEN TranslationOf(LiveWm(c.entityId, i))
    ELSE Affine(sceneGraph[c.entityId], TranslationOf(BonesOf(c.assetId)[i + 1].bindPose))

\* Bone i's parentIndex is a number in 0..boneCount-1
ValidParent(bones, i) ==
    /\ bones[i + 1].parentIndex.type = "number"
    /\ bones[i + 1].parentIndex.value \in 0..(Len(bones) - 1)

\* C6: with drawBones true, each bone with a parent index in 0..boneCount-1
\* gets exactly one line coloured boneColor, from the parent's position (live
\* translation if the parent has a live matrix, else its transformed bind-pose
\* translation: where the parent's own marker is drawn) to the bone's
\* position; no other bone gets one; with drawBones false there is none.
C6_BoneToParentLines ==
    /\ (UpToDate /\ ~options.drawBones) =>
          \A k \in 1..Len(prims) : prims[k].site /= "boneLine"
    /\ Drew =>
          \A n \in DrawnCalls :
              LET c == calls[n]
                  bones == BonesOf(c.assetId)
              IN  \A i \in BoneIndices(c.assetId) :
                      LET lines == PrimsOf(c.entityId, i, "boneLine")
                      IN  IF options.drawBones /\ ValidParent(bones, i)
                          THEN LET p == bones[i + 1].parentIndex.value
                               IN  /\ Len(lines) = 1
                                   /\ lines[1].op = "drawLine"
                                   /\ lines[1].start = ExpectedPos(c, p)
                                   /\ lines[1].end = ExpectedPos(c, i)
                                   /\ lines[1].color = options.boneColor
                                   /\ PlacedAt(c.entityId, p, lines[1].start)
                          ELSE lines = <<>>

C6_Witness ==
    /\ Drew /\ options.drawBones /\ options.drawJoints
    /\ \E n \in DrawnCalls :
        LET c == calls[n]
            e == calls[n].entityId
        IN  /\ Len(BonesOf(c.assetId)) = 3
            /\ sceneGraph[e] /= Identity
            /\ ~HasLive(e, 0) /\ HasLive(e, 1) /\ ~HasLive(e, 2)
            /\ PrimsOf(e, 1, "boneLine") /= <<>>
            /\ PrimsOf(e, 2, "boneLine") /= <<>>
            /\ PrimsOf(e, 2, "boneLine")[1].start
                  /= Affine(sceneGraph[e], TranslationOf(BonesOf(c.assetId)[2].bindPose))

AxisColor(k) ==
    [r |-> IF k = 0 THEN 1000 ELSE 0, g |-> IF k = 1 THEN 1000 ELSE 0,
     b |-> IF k = 2 THEN 1000 ELSE 0]

\* Index of the first primitive of instance e
FirstOf(e) ==
    CHOOSE k \in 1..Len(prims) :
        prims[k].entity = e /\ \A j \in 1..(k - 1) : prims[j].entity /= e

\* C7: every standalone instance whose asset, skeleton and world matrix are
\* available gets a triad of scale 0.6 at its world translation along its
\* world matrix's columns, whatever drawAxes, drawJoints and drawBones are, and
\* the triad's three lines are the first primitives of the instance; a
\* skeletal-mesh instance gets no such triad.
C7_StandaloneOriginTriad ==
    Drew =>
        /\ \A n \in 1..Len(skeletonEntityAssetMap) :
              LET e == skeletonEntityAssetMap[n].key
                  a == skeletonEntityAssetMap[n].value
              IN  Resolves(a, e) =>
                      /\ \E k \in 1..Len(prims) : prims[k].entity = e
                      /\ FirstOf(e) + 2 <= Len(prims)
                      /\ \A k \in 0..2 :
                            LET q == prims[FirstOf(e) + k]
                                O == TranslationOf(sceneGraph[e])
                                col == ColumnOf(sceneGraph[e], k)
                            IN  /\ q.op = "drawLine"
                                /\ q.entity = e /\ q.site = "origin"
                                /\ q.start = O
                                /\ q.end = Shift(O, Mul(col.x, 600), Mul(col.y, 600),
                                                 Mul(col.z, 600))
                                /\ q.color = AxisColor(k)
                      /\ Len(PrimsOf(e, -1, "origin")) = 3
        /\ \A k \in 1..Len(prims) : ~prims[k].standalone => prims[k].site /= "origin"

C7_Witness ==
    /\ Drew /\ ~options.drawAxes /\ options.drawJoints
    /\ \E n \in 1..Len(skeletonEntityAssetMap) :
          /\ Resolves(skeletonEntityAssetMap[n].value, skeletonEntityAssetMap[n].key)
          /\ PrimsOf(skeletonEntityAssetMap[n].key, -1, "origin") /= <<>>
    /\ \E k \in 1..Len(prims) : ~prims[k].standalone

\* C8: a live world matrix with a rotation column of length 0 gives the
\* corresponding identity axis: the triad line drawn for that column runs from
\* the bone's position one triad scale along x, y or z.
C8_DegenerateColumnIsIdentityAxis ==
    Drew =>
        \A n \in DrawnCalls :
            \A i \in BoneIndices(calls[n].assetId) :
                HasLive(calls[n].entityId, i) =>
                    \A k \in 0..2 :
                        ColumnOf(LiveWm(calls[n].entityId, i), k) = Vec(0, 0, 0) =>
                            LET root == PrimsOf(calls[n].entityId, i, "rootAxis")
                                axes == PrimsOf(calls[n].entityId, i, "axis")
                                rs == Mul(350, options.rootScale)
                            IN  /\ root /= <<>> =>
                                      root[k + 1].end =
                                          Shift(root[k + 1].start,
                                                IF k = 0 THEN rs ELSE 0,
                                                IF k = 1 THEN rs ELSE 0,
                                                IF k = 2 THEN rs ELSE 0)
                                /\ axes /= <<>> =>
                                      axes[k + 1].end =
                                          Shift(axes[k + 1].start,
                                                IF k = 0 THEN 300 ELSE 0,
                                                IF k = 1 THEN 300 ELSE 0,
                                                IF k = 2 THEN 300 ELSE 0)

C10_FrameOrdering ==
    UpToDate =>
        /\ \A k \in 1..(Len(prims) - 1) :
              /\ ~prims[k].standalone => ~prims[k + 1].standalone
              /\ prims[k].entity = prims[k + 1].entity => prims[k].bone <= prims[k + 1].bone
        /\ prims /= <<>> =>
              Cardinality({k \in 1..(Len(prims) - 1) : prims[k].entity /= prims[k + 1].entity})
                  + 1 = Cardinality({prims[k].entity : k \in 1..Len(prims)})
        /\ \A n \in DrawnCalls :
              \A i \in BoneIndices(calls[n].assetId) :
                  /\ Len(PrimsOf(calls[n].entityId, i, "joint")) <= 1
                  /\ Len(PrimsOf(calls[n].entityId, i, "boneLine")) <= 1
                  /\ Len(PrimsOf(calls[n].entityId, i, "axis")) \in {0, 3}
                  /\ Len(PrimsOf(calls[n].entityId, i, "rootAxis")) \in {0, 3}
                  /\ Len(PrimsOf(calls[n].entityId, i, "rootSphere")) \in {0, 3 * segments}

C10_Witness ==
    /\ Drew /\ options.drawJoints /\ options.drawBones /\ options.drawAxes
    /\ \E a, b \in 1..Len(calls) :
          /\ calls[a].isStandalone /\ ~calls[b].isStandalone
          /\ \A i \in 0..2 :
                /\ \E k \in 1..Len(prims) :
                      prims[k].entity = calls[a].entityId /\ prims[k].bone = i
                /\ \E k \in 1..Len(prims) :
                      prims[k].entity = calls[b].entityId /\ prims[k].bone = i

\* C11: within one instance every primitive of a bone precedes every primitive
\* of each of its children, the bones whose parentIndex is its index, for every
\* skeleton whose parent indices lie in 0..boneCount-1.
C11_ParentBeforeChild ==
    Drew =>
        \A n \in DrawnCalls :
            LET e == calls[n].entityId
                bones == BonesOf(calls[n].assetId)
            IN  \A i \in BoneIndices(calls[n].assetId) :
                    (ValidParent(bones, i) /\ bones[i + 1].parentIndex.value /= i) =>
                        \A a, b \in 1..Len(prims) :
                            (/\ prims[a].entity = e /\ prims[b].entity = e
                             /\ prims[a].bone = bones[i + 1].parentIndex.value
                             /\ prims[b].bone = i) => a < b

\* A map without the entry of entity e
Without(m, e) == SelectSeq(m, LAMBDA x : x.key /= e)

\* The component store has an index for e, reports it active, and its mesh
\* type has an asset id
Gated(e) ==
    /\ e \in DOMAIN idToIndex
    /\ idToIndex[e] \in DOMAIN isActive
    /\ isActive[idToIndex[e]]
    /\ meshType[idToIndex[e]] \in DOMAIN meshIntToUuid
    /\ meshIntToUuid[meshType[idToIndex[e]]] /= ""

MeshAsset(e) == meshIntToUuid[meshType[idToIndex[e]]]

\* The instances a frame draws when the standalone map is sa and the
\* skeletal-mesh map is sm: all of sa, then the gated entities of sm not in sa
FrameCalls(sa, sm) ==
    LET keep == SelectSeq(sm, LAMBDA x : ~MapHas(sa, x.key) /\ Gated(x.key))
    IN  [k \in 1..Len(sa) |-> Call(sa[k].value, sa[k].key, TRUE)]
        \o [k \in 1..Len(keep) |-> Call(MeshAsset(keep[k].key), keep[k].key, FALSE)]

\* C12: an instance whose asset is not registered, has no skeleton or no bones
\* array, or whose entity has no world matrix, gets no primitive at all, and
\* the frame is the one update() emits with that instance in neither map.
C12_MissingDataIsLocal ==
    Drew =>
        \A n \in 1..Len(calls) :
            ~Resolves(calls[n].assetId, calls[n].entityId) =>
                LET e == calls[n].entityId
                IN  /\ \A k \in 1..Len(prims) : prims[k].entity /= e
                    /\ prims = emitted(FrameCalls(Without(skeletonEntityAssetMap, e),
                                                  Without(skeletonMap, e)))

C12_Witness ==
    /\ Drew
    /\ \E n, m \in 1..Len(calls) :
          /\ n < m
          /\ calls[n].isStandalone
          /\ calls[n].assetId \in DOMAIN assets
          /\ ~assets[calls[n].assetId].hasSkeleton
          /\ HasWorldMatrix(calls[n].entityId)
          /\ m \in DrawnCalls
          /\ \E k \in 1..Len(prims) : prims[k].entity = calls[m].entityId

\* A parentIndex that is absent (undefined, null) or below 0
AbsentOrNegative(p) == p.type \in {"undefined", "null"} \/ (p.type = "number" /\ p.value < 0)

\* C13: every bone whose parentIndex is undefined, null or any number below 0
\* gets the root treatment: the root triad if the instance is standalone or
\* drawAxes is set, the wire sphere if drawJoints is set, never a point, never
\* the 0.3 triad, never a line to a parent.
C13_RootEncoding ==
    Drew =>
        \A n \in DrawnCalls :
            LET c == calls[n]
                e == calls[n].entityId
                bones == BonesOf(calls[n].assetId)
            IN  \A i \in BoneIndices(c.assetId) :
                    AbsentOrNegative(bones[i + 1].parentIndex) =>
                        /\ PrimsOf(e, i, "joint") = <<>>
                        /\ PrimsOf(e, i, "axis") = <<>>
                        /\ PrimsOf(e, i, "boneLine") = <<>>
                        /\ Len(PrimsOf(e, i, "rootAxis"))
                              = IF c.isStandalone \/ options.drawAxes THEN 3 ELSE 0
                        /\ Len(PrimsOf(e, i, "rootSphere"))
                              = IF options.drawJoints THEN 3 * segments ELSE 0

\* C14: a bone whose parentIndex is a number at or beyond boneCount emits no
\* primitive at all: no joint marker, no triad, no line.
C14_InvalidParentSkipped ==
    Drew =>
        \A n \in DrawnCalls :
            LET e == calls[n].entityId
                bones == BonesOf(calls[n].assetId)
            IN  \A i \in BoneIndices(calls[n].assetId) :
                    (/\ bones[i + 1].parentIndex.type = "number"
                     /\ bones[i + 1].parentIndex.value >= Len(bones)) =>
                        \A k \in 1..Len(prims) :
                            ~(prims[k].entity = e /\ prims[k].bone = i)

\* C15: an entity of the skeletal-mesh map is drawn by the second pass only if
\* it is not a key of the standalone map, has an index in the component store,
\* is active at that index and its mesh type has an asset id; then it is drawn
\* once, with that asset and isStandalone false; otherwise the second pass
\* emits nothing for it.
C15_SkeletalMeshGating ==
    Drew =>
        \A m \in 1..Len(skeletonMap) :
            LET e == skeletonMap[m].key
                passes == ~MapHas(skeletonEntityAssetMap, e) /\ Gated(e)
                mine == {n \in 1..Len(calls) : calls[n].entityId = e /\ ~calls[n].isStandalone}
            IN  IF passes
                THEN /\ Cardinality(mine) = 1
                     /\ \A n \in mine : calls[n].assetId = MeshAsset(e)
                     /\ \A k \in 1..Len(prims) :
                           prims[k].entity = e =>
                               ~prims[k].standalone /\ prims[k].site /= "origin"
                     /\ (/\ Resolves(MeshAsset(e), e) /\ options.drawJoints
                         /\ BonesOf(MeshAsset(e)) /= <<>>) =>
                             \E k \in 1..Len(prims) : prims[k].entity = e
                ELSE /\ mine = {}
                     /\ \A k \in 1..Len(prims) : prims[k].entity = e => prims[k].standalone
                     /\ ~MapHas(skeletonEntityAssetMap, e) =>
                           \A k \in 1..Len(prims) : prims[k].entity /= e

C15_Witness ==
    /\ Drew
    /\ \E a, b \in 1..Len(skeletonMap) :
          LET e == skeletonMap[a].key
              f == skeletonMap[b].key
          IN  /\ ~MapHas(skeletonEntityAssetMap, e)
              /\ e \in DOMAIN idToIndex /\ ~isActive[idToIndex[e]]
              /\ Resolves(MeshAsset(e), e)
              /\ ~MapHas(skeletonEntityAssetMap, f) /\ Gated(f)
              /\ \E k \in 1..Len(prims) : prims[k].entity = f /\ ~prims[k].standalone

\* The axes the pose of bone i of the invocation c carries
AxisOf(c, i, k) ==
    LET pose == bonePose(sceneGraph[c.entityId], c.entityId, BonesOf(c.assetId), i)
    IN  IF k = 0 THEN pose.rx ELSE IF k = 1 THEN pose.ry ELSE pose.rz

\* C16: every root bone of a drawn instance gets a triad of scale
\* 0.35 * rootScale at its position exactly when the instance is standalone or
\* drawAxes is set, and a wire sphere of radius 0.3 * rootScale coloured
\* rootColor around its position exactly when drawJoints is set, the triad
\* before the sphere; it never gets the 0.3 triad nor a point.  A root is a
\* bone whose parentIndex is -1, undefined or null; a skeleton may have several.
C16_RootBonePrimitives ==
    Drew =>
        \A n \in DrawnCalls :
            LET c == calls[n]
                e == calls[n].entityId
                bones == BonesOf(calls[n].assetId)
            IN  \A i \in BoneIndices(c.assetId) :
                    isRoot(bones[i + 1].parentIndex) =>
                        LET ax == PrimsOf(e, i, "rootAxis")
                            sph == PrimsOf(e, i, "rootSphere")
                            X == ExpectedPos(c, i)
                            s == Mul(350, options.rootScale)
                        IN  /\ Len(ax) = IF c.isStandalone \/ options.drawAxes THEN 3 ELSE 0
                            /\ ax /= <<>> =>
                                  \A k \in 0..2 :
                                      /\ ax[k + 1].op = "drawLine"
                                      /\ ax[k + 1].start = X
                                      /\ ax[k + 1].end =
                                            Shift(X, Mul(AxisOf(c, i, k).x, s),
                                                  Mul(AxisOf(c, i, k).y, s),
                                                  Mul(AxisOf(c, i, k).z, s))
                                      /\ ax[k + 1].color = AxisColor(k)
                            /\ Len(sph) = IF options.drawJoints THEN 3 * segments ELSE 0
                            /\ sph /= <<>> =>
                                  /\ SphereAround(sph, X)
                                  /\ \A k \in 1..Len(sph) :
                                        sph[k].op = "drawLine" /\ sph[k].color = options.rootColor
                            /\ \A a, b \in 1..Len(prims) :
                                  (/\ prims[a].entity = e /\ prims[b].entity = e
                                   /\ prims[a].bone = i /\ prims[b].bone = i
                                   /\ prims[a].site = "rootAxis"
                                   /\ prims[b].site = "rootSphere") => a < b
                            /\ PrimsOf(e, i, "axis") = <<>>
                            /\ PrimsOf(e, i, "joint") = <<>>

C16_Witness ==
    /\ Drew /\ options.drawAxes /\ options.drawJoints
    /\ \E n \in DrawnCalls :
          LET e == calls[n].entityId
              bones == BonesOf(calls[n].assetId)
          IN  /\ ~calls[n].isStandalone
              /\ Len(bones) = 2
              /\ isRoot(bones[1].parentIndex) /\ isRoot(bones[2].parentIndex)
              /\ bones[1].parentIndex /= bones[2].parentIndex
              /\ PrimsOf(e, 0, "rootAxis") /= <<>> /\ PrimsOf(e, 0, "rootSphere") /= <<>>
              /\ PrimsOf(e, 1, "rootAxis") /= <<>> /\ PrimsOf(e, 1, "rootSphere") /= <<>>

\* The group a primitive belongs to: the origin triad, the markers and triads
\* of the bones, the lines to the parents
GroupOf(q) == IF q.site = "origin" THEN 0 ELSE IF q.site = "boneLine" THEN 2 ELSE 1

\* C17: the primitives of one instance come in three consecutive groups: the
\* origin triad, then the joint markers and triads of all bones, then the
\* lines to the parents; no line precedes a marker or triad of the instance.
C17_ThreeGroups ==
    Drew =>
        \A a, b \in 1..Len(prims) :
            (a < b /\ prims[a].entity = prims[b].entity) =>
                GroupOf(prims[a]) <= GroupOf(prims[b])

\* The squared length of the line q
LengthSq(q) ==
    (q.end.x - q.start.x) * (q.end.x - q.start.x)
    + (q.end.y - q.start.y) * (q.end.y - q.start.y)
    + (q.end.z - q.start.z) * (q.end.z - q.start.z)

\* A line of squared length within one thousandth per component of scale s
HasLength(q, s) ==
    /\ LengthSq(q) >= (s - 2) * (s - 2)
    /\ LengthSq(q) <= (s + 2) * (s + 2)

\* C18: the three axes of every bone's pose have length 1, from a live world
\* matrix or from the bind pose under the instance's world matrix, scaled or
\* not: every triad arm drawn for a bone is as long as the triad's scale.
C18_UnitAxes ==
    Drew =>
        \A k \in 1..Len(prims) :
            /\ prims[k].site = "axis" => HasLength(prims[k], 300)
            /\ prims[k].site = "rootAxis" =>
                  HasLength(prims[k], Mul(350, options.rootScale))

\* C19: the options start at the defaults; setOptions(partial) sets the
\* fields of partial and leaves the others as they are; update(), setActive()
\* and setActiveAsset() change no option, and update() draws by the options
\* of the moment it is called.
C19_OptionsMergeOnly ==
    /\ /\ options.enabled /\ options.drawJoints /\ options.drawBones /\ ~options.drawAxes
       /\ options.jointRadius = 10000 /\ options.rootScale = 1600
       /\ options.border = 200
    /\ [][/\ \A partial \in Partials :
                setOptions(partial) =>
                    \A f \in OptionFields :
                        options'[f] = IF f \in DOMAIN partial THEN partial[f] ELSE options[f]
          /\ (\A partial \in Partials : ~setOptions(partial)) => options' = options
          /\ (options' = options /\ runs' > runs /\ update) =>
                /\ ~options.enabled => prims' = <<>>
                /\ \A k \in 1..Len(prims') :
                      /\ prims'[k].site \in {"joint", "rootSphere"} => options.drawJoints
                      /\ prims'[k].site = "boneLine" => options.drawBones
                      /\ prims'[k].site = "axis" => options.drawAxes
                /\ (options.enabled /\ options.drawJoints /\ debugRenderer) =>
                      \A n \in 1..Len(calls') :
                          (/\ Resolves(calls'[n].assetId, calls'[n].entityId)
                           /\ BonesOf(calls'[n].assetId) /= <<>>) =>
                              \E k \in 1..Len(prims') :
                                  /\ prims'[k].entity = calls'[n].entityId
                                  /\ prims'[k].site \in {"joint", "rootSphere"}
         ]_vars

C19_Witness ==
    /\ Drew
    /\ ~options.drawJoints /\ ~options.drawBones /\ options.drawAxes /\ options.enabled
    /\ options.rootScale = 1600
    /\ \E k \in 1..Len(prims) : prims[k].site = "axis"

\* How far a step-by-step update() has come: instances done, then bones done
Progress == <<loop.n, IF loop.pc = "bone" THEN 1 ELSE 0, loop.i>>

Further(a, b) ==
    \/ a[1] < b[1]
    \/ a[1] = b[1] /\ a[2] < b[2]
    \/ a[1] = b[1] /\ a[2] = b[2] /\ a[3] < b[3]

\* The bones a completed update() has to have visited, in order
VisitsDue ==
    Flatten([n \in 1..Len(calls) |->
                IF Resolves(calls[n].assetId, calls[n].entityId)
                THEN [k \in 1..Len(BonesOf(calls[n].assetId)) |-> <<n, k - 1>>]
                ELSE <<>>])

\* C20: update() runs to completion for every assignment of parent indices,
\* self-parenting, cyclic and later-index parents included: a running update()
\* always has a next step, every step moves on to a later bone or instance,
\* no bone is visited twice, and the update() ends having visited each bone of
\* each drawn instance once, in index order, with the frame update() emits.
C20_UpdateTerminates ==
    /\ [](loop.pc /= "idle" => ENABLED RunToCompletion)
    /\ [](\A a, b \in 1..Len(loop.visits) : a /= b => loop.visits[a] /= loop.visits[b])
    /\ []((loop.pc = "idle" /\ runs >= 1) =>
              /\ loop.visits = (IF options.enabled /\ debugRenderer THEN VisitsDue ELSE <<>>)
              /\ prims = emitted(calls))
    /\ [][(loop.pc /= "idle" /\ loop'.pc /= "idle") => Further(Progress, Progress')]_vars
    /\ (loop.pc /= "idle") ~> (loop.pc = "idle")

C20_Witness ==
    /\ loop.pc = "idle" /\ runs >= 1 /\ options.enabled /\ debugRenderer
    /\ Len(loop.visits) = 2
    /\ \E n \in DrawnCalls :
          LET bones == BonesOf(calls[n].assetId)
          IN  /\ Len(bones) = 2
              /\ bones[1].parentIndex = Num(1)
              /\ bones[2].parentIndex = Num(0)

\* C21: the component store does not gate the standalone pass: a standalone
\* entity whose asset, skeleton and world matrix are available is drawn, origin
\* triad and root triads included, by every enabled update(), with or without
\* an index in the component store and active or not.
C21_StandaloneNotGated ==
    Drew =>
        \A m \in 1..Len(skeletonEntityAssetMap) :
            LET e == skeletonEntityAssetMap[m].key
                a == skeletonEntityAssetMap[m].value
            IN  /\ \E n \in 1..Len(calls) :
                      calls[n] = Call(a, e, TRUE)
                /\ Resolves(a, e) =>
                      /\ Len(PrimsOf(e, -1, "origin")) = 3
                      /\ \A i \in BoneIndices(a) :
                            isRoot(BonesOf(a)[i + 1].parentIndex) =>
                                Len(PrimsOf(e, i, "rootAxis")) = 3
                      /\ \A k \in 1..Len(prims) : prims[k].entity = e => prims[k].standalone

C21_Witness ==
    /\ Drew
    /\ \E a, b \in 1..Len(skeletonEntityAssetMap) :
          LET e == skeletonEntityAssetMap[a].key
              f == skeletonEntityAssetMap[b].key
          IN  /\ e \in DOMAIN idToIndex /\ ~isActive[idToIndex[e]]
              /\ PrimsOf(e, -1, "origin") /= <<>> /\ PrimsOf(e, 0, "rootAxis") /= <<>>
              /\ f /= e
              /\ PrimsOf(f, -1, "origin") /= <<>>

\* C22: an entity that is a key of both maps and whose standalone asset id
\* names no asset, or an asset without a skeleton or bones array, gets no
\* primitive and no skeletal-mesh pass, also when it is active and its mesh
\* type names an asset with a skeleton.
C22_DedupByMembership ==
    Drew =>
        \A m \in 1..Len(skeletonEntityAssetMap) :
            LET e == skeletonEntityAssetMap[m].key
                a == skeletonEntityAssetMap[m].value
            IN  (MapHas(skeletonMap, e) /\ ~Resolves(a, e)) =>
                    /\ \A k \in 1..Len(prims) : prims[k].entity /= e
                    /\ \A n \in 1..Len(calls) :
                          calls[n].entityId = e => calls[n] = Call(a, e, TRUE)

C22_Witness ==
    /\ Drew /\ prims /= <<>>
    /\ \E m \in 1..Len(skeletonEntityAssetMap) :
          LET e == skeletonEntityAssetMap[m].key
              a == skeletonEntityAssetMap[m].value
          IN  /\ MapHas(skeletonMap, e)
              /\ a \in DOMAIN assets /\ ~assets[a].hasSkeleton
              /\ Gated(e)
              /\ Resolves(MeshAsset(e), e)
              /\ BonesOf(MeshAsset(e)) /= <<>>

====
